---- MODULE Spec2Model ----
(***************************************************************************)
(* GameDrop: the size-constrained clip compression pipeline.               *)
(*                                                                         *)
(*   VideoProcessor.compress_clip   src/gamedrop/core/video_processor.py   *)
(*   compress_and_send_video        src/gamedrop/utils/ffmpeg_core.py      *)
(*                                                                         *)
(* The pipeline is one sequential thread; pc is its position.  The         *)
(* external collaborators (ffprobe, the ffmpeg child process, the file     *)
(* system's content, the Discord endpoint) are nondeterministic.           *)
(* File sizes and max_size are counted in units of SizeUnit bytes, times   *)
(* are milliseconds.  Tier planning and the bitrate calculation are also   *)
(* exercised on their own, over wider inputs, by SpecCalc.                 *)
(* Environment assumptions: the caller supplies a progress callback that   *)
(* does not raise; shutil.move and os.remove succeed; the elapsed time     *)
(* printed by one ffmpeg process does not go backwards.                    *)
(***************************************************************************)
EXTENDS Integers, Sequences, FiniteSets, TLC

(* ---------------------------- bounds ----------------------------------- *)
MaxFileSize == 2        \* file sizes range over 0..MaxFileSize
MaxWebhooks == 2        \* at most this many upload destinations

(* ------------------------ program constants ----------------------------- *)
AUDIO_BITRATE_KBPS_ALLOWANCE == 128
MIN_ABS_VIDEO_BITRATE_KBPS == 250
BITRATE_CALCULATION_SAFETY_FACTOR == 90     \* 0.90, in percent
FinalPassSafetyFactor == 85     \* max_size * 0.85 of the final pass, in percent
compression_progress_total_allocation == 90
DEFAULT_RESOLUTION_TIERS ==
    << [w |-> 1920, h |-> 1080, label |-> "1080p"],
       [w |-> 1280, h |-> 720,  label |-> "720p"],
       [w |-> 854,  h |-> 480,  label |-> "480p"],
       [w |-> 640,  h |-> 360,  label |-> "360p"] >>

(* ------------------------ modelled input space -------------------------- *)
Unreadable == -1                       \* os.path.getsize(input_path) raises
NoResolution == [w |-> 0, h |-> 0]     \* _get_video_resolution returned None
Resolutions ==
    { NoResolution,
      [w |-> 3840, h |-> 2160],
      [w |-> 1920, h |-> 1080],
      [w |-> 1080, h |-> 1920],
      [w |-> 854,  h |-> 480],
      [w |-> 320,  h |-> 240] }
Durations == {-500, 0, 3000}                 \* round(end_time - start_time, 3), ms
SourceSizes == {Unreadable, 1, MaxFileSize}  \* os.path.getsize(input_path)
RequestedSizes == {1, MaxFileSize}           \* parameter max_size
ElapsedValues == {0, 1000, 2100, 3000, 4000}   \* time= markers, ms
\* GPU.get_recommended_encoder
Codecs == {"h264", "h264_nvenc", "h264_amf", "hevc_vaapi", "h264_vaapi"}
ReturnCodes == {0, 1, 234}             \* ffmpeg exit status
Environments ==
    { e \in [codec : Codecs, vaapiDevice : BOOLEAN, steamDeck : BOOLEAN,
              forceSW : BOOLEAN] :
        /\ (e.codec \notin {"hevc_vaapi", "h264_vaapi"} => ~e.vaapiDevice)
        /\ (e.steamDeck <=> e.codec = "h264_vaapi")
        /\ (e.forceSW => e.codec = "h264_nvenc") }

(* ------------------------------ files ----------------------------------- *)
\* A file is its size and where its bytes came from:
\* origin 0 = present before the call, origin k > 0 = written by tier k.
NoFile == [origin |-> -1, size |-> -1]
OutputPath == "output_path"
InputPath == "input_path"
SizeUnit == 2 * 1024 * 1024            \* bytes in one unit of file size
TempPath(label) == OutputPath \o "." \o label \o ".temp.mp4"
OversizedPath == OutputPath \o ".temp_oversized_original.mp4"
Labels == {"original", "1080p", "720p", "480p", "360p",
           "original_fallback", "360p_fallback"}
Paths == {OutputPath, OversizedPath} \cup {TempPath(l) : l \in Labels}
Exists(f, p) == f[p] # NoFile

Min(a, b) == IF a <= b THEN a ELSE b
Max(a, b) == IF a >= b THEN a ELSE b

NoExc == [type |-> "", msg |-> ""]
NoResultYet == [success |-> FALSE, message |-> "", file_path |-> "",
                file_size |-> -1, webhook_success |-> FALSE]
NullPath == "None"
Infinity == MaxFileSize + 1000         \* float('inf') in the best-attempt record
NoExit == [rc |-> 0, mem |-> FALSE]
NoBest == [path |-> NullPath, size |-> Infinity, label |-> ""]
MaxTiers == Len(DEFAULT_RESOLUTION_TIERS) + 1   \* the ladder and "original"
NotObserved == -1

VARIABLES
    duration,       \* round(end_time - start_time, 3) in ms
    env,            \* gpu_encoder, VA-API device, FORCE_SOFTWARE_ENCODING
    pc,             \* position of the thread inside compress_clip
    max_size,       \* parameter max_size, reassigned by the source-size clamp
    requested_max_size,   \* history: max_size as the caller passed it
    original_file_size,   \* os.path.getsize(input_path), line 267
    spawned,        \* history: the external programs started by this call
    tiers,          \* actual_tiers_to_try
    tier_idx,       \* 1-based index of the tier in hand
    attempt,        \* compress_and_send_video: loop variable
    codec,          \* compress_and_send_video: local codec
    encElapsed,     \* last time= value printed by the running process
    lastExit,       \* exit status and memory_error flag of the last process
    encLog,         \* commands of the processes spawned by the current call
                    \* of compress_and_send_video, in order
    fs,             \* the files on disk this call can touch
    temp_files_created,
    best_attempt_so_far,
    successful_compression,
    final_file_size,
    webhooks,       \* number of upload destinations
    webhook_idx,
    webhook_success,
    exc,            \* exception in flight inside the outer try
    result,         \* the returned dictionary
    cbVal,          \* last value given to progress_callback
    cbCalled,       \* progress_callback has been invoked
    tierSize,       \* history: current_tier_size observed for each tier
    acceptedTier,   \* history: tier whose file was moved to output_path
    sendLog,        \* history: outcome of every send_to_discord call
    calc,           \* the calculation in hand when the planning and bitrate
                    \* functions are exercised on their own (SpecCalc)
    lower_value,    \* RangeSlider: start handle, in 0.001 %
    upper_value,    \* RangeSlider: end handle, in 0.001 %
    active_handle,  \* RangeSlider: the handle being dragged
    video_duration, \* MainWindow: duration of the loaded media, ms
    enforce_duration_limit,   \* MainWindow: the 30-second checkbox
    video_path,     \* MainWindow: path of the loaded video
    slider_parent_has_limit,  \* whether the widget returned by the slider's
                    \* parent() has an attribute enforce_duration_limit
    clip            \* drop_video: the times handed to the processor while the
                    \* call is running

vars == << duration, env, pc, max_size, requested_max_size,
           original_file_size, spawned, tiers, tier_idx, attempt, codec,
           encElapsed, lastExit, encLog, fs, temp_files_created,
           best_attempt_so_far, successful_compression, final_file_size,
           webhooks, webhook_idx, webhook_success, exc, result, cbVal,
           cbCalled, tierSize, acceptedTier, sendLog, calc,
           lower_value, upper_value, active_handle, video_duration,
           enforce_duration_limit, video_path, slider_parent_has_limit, clip >>

uiVars == << lower_value, upper_value, active_handle, video_duration,
             enforce_duration_limit, video_path, slider_parent_has_limit,
             clip >>

(* -------------------------- tier planning ------------------------------- *)
Area(t) == t.w * t.h

\* list.sort(key=area, reverse=True) is stable: an element goes after every
\* element whose area is >= its own.
RECURSIVE InsertDesc(_, _)
InsertDesc(t, s) ==
    IF s = << >> THEN << t >>
    ELSE IF Area(Head(s)) >= Area(t)
         THEN << Head(s) >> \o InsertDesc(t, Tail(s))
         ELSE << t >> \o s

RECURSIVE SortDesc(_)
SortDesc(s) ==
    IF s = << >> THEN << >>
    ELSE InsertDesc(s[Len(s)], SortDesc(SubSeq(s, 1, Len(s) - 1)))

\* Codecs the encoder documents as hardware-accelerated (lines 350-354).
HardwareCodecs == {"h264_nvenc", "hevc_nvenc", "h264_amf", "h264_qsv",
                   "h264_vaapi", "hevc_vaapi"}

\* A membership test that never finds the resolution.
NeverHasResolution(s, w, h) == FALSE

\* `(res_w, res_h) not in added_resolutions`, negated
HasResolution(s, w, h) == \E i \in 1..Len(s) : s[i].w = w /\ s[i].h = h

\* An upscale test that looks at the width only.
IsNotUpscaleByWidth(t, orig) == ~(orig # NoResolution /\ t.w > orig.w)

\* is_not_upscale, lines 303-306
IsNotUpscale(t, orig) ==
    ~(orig # NoResolution /\ (t.w > orig.w \/ t.h > orig.h))

RECURSIVE AddLadder(_, _, _)
AddLadder(acc, ladder, orig) ==
    IF ladder = << >> THEN acc
    ELSE LET t == Head(ladder)
         IN  AddLadder(IF IsNotUpscale(t, orig) /\ ~HasResolution(acc, t.w, t.h)
                       THEN Append(acc, t) ELSE acc,
                       Tail(ladder), orig)

\* A plan made of the filtered ladder alone.
PlanLadderOnly(orig) == AddLadder(<< >>, DEFAULT_RESOLUTION_TIERS, orig)

PlanTiers(orig) ==
    LET first == IF orig # NoResolution
                 THEN << [w |-> orig.w, h |-> orig.h, label |-> "original"] >>
                 ELSE << >>
        sorted == SortDesc(AddLadder(first, DEFAULT_RESOLUTION_TIERS, orig))
    IN  IF sorted # << >> THEN sorted
        ELSE IF orig # NoResolution
             THEN << [w |-> orig.w, h |-> orig.h, label |-> "original_fallback"] >>
             ELSE << [w |-> 640, h |-> 360, label |-> "360p_fallback"] >>

(* ------------------------ progress arithmetic --------------------------- *)
\* min(100, int((current_seconds / duration_seconds) * 100))
EncoderProgress(e, d) == Min(100, (e * 100) \div d)

\* The tier's base without the division by the number of tiers.
TierProgressUnscaled(n, i, p) ==
    compression_progress_total_allocation * i
    + (compression_progress_total_allocation * p) \div (100 * n)

\* Every tier reporting into the first tier's sub-range.
TierProgressNoBase(n, i, p) ==
    (compression_progress_total_allocation * p) \div (100 * n)

\* int(base + (p / 100.0) * budget), base = (i/n)*90.0, budget = (1/n)*90.0,
\* i 0-based.  Python evaluates this in IEEE-754 doubles; for n <= 6 and
\* p in 0..100 the result is the exact floor except 0.7 * 90.0, which is
\* 62.99999999999999.
TierProgress(n, i, p) ==
    IF n = 1 /\ i = 0 /\ p = 70 THEN 62
    ELSE (100 * compression_progress_total_allocation * i
          + compression_progress_total_allocation * p) \div (100 * n)

\* final_pass_progress_callback: int(95.0 + (p / 100.0) * 4.0); the double
\* result is the exact floor for every p in 0..100.
FinalPassProgress(p) == (95 * 100 + 4 * p) \div 100

(* ------------------------- bitrate arithmetic --------------------------- *)
\* The bitrate with the lower clamp left out.
UnclampedVideoKbps(size, d, pct) ==
    (2 * pct * size - 25 * AUDIO_BITRATE_KBPS_ALLOWANCE * d) \div (25 * d)

\* int(clamped_video_kbps) of lines 350-369 (pct = 90) and int(final_video_kbps)
\* of lines 447-456 (pct = 85); size in bytes, d = duration in ms, d > 0.
\*   target_video_bits = size * (pct/100) * 8 - 128 * 1000 * (d/1000)
\*   kbps = 250 if target_video_bits <= 0 else max(250, target_video_bits / (d/1000) / 1000)
\* The numerator below is 25 * target_video_bits, which is integral.  Python
\* computes in doubles; for the sizes and durations the model uses, the
\* truncated double equals this exact quotient.
VideoKbps(size, d, pct) ==
    LET video_bits_x25 == 2 * pct * size - 25 * AUDIO_BITRATE_KBPS_ALLOWANCE * d
    IN  IF video_bits_x25 <= 0
        THEN MIN_ABS_VIDEO_BITRATE_KBPS
        ELSE Max(MIN_ABS_VIDEO_BITRATE_KBPS, video_bits_x25 \div (25 * d))

\* Text is a sequence of one-character strings.
DigitChars == << "0", "1", "2", "3", "4", "5", "6", "7", "8", "9" >>

\* str(n) of an int: the decimal digits, a minus sign first when negative.
RECURSIVE IntToText(_)
IntToText(n) ==
    IF n < 0 THEN << "-" >> \o IntToText(0 - n)
    ELSE IF n < 10 THEN << DigitChars[n + 1] >>
    ELSE IntToText(n \div 10) \o << DigitChars[(n % 10) + 1] >>

\* f"{int(kbps)}k"
BitrateString(kbps) == IntToText(kbps) \o << "k" >>

\* A tier attempt computed with the final pass's safety factor.
TierBitrateStringAtFinalFactor(size, d) ==
    BitrateString(VideoKbps(size, d, FinalPassSafetyFactor))

\* target_bitrate_str of a tier attempt, lines 350-370
TierBitrateString(size, d) ==
    BitrateString(VideoKbps(size, d, BITRATE_CALCULATION_SAFETY_FACTOR))

\* final_bitrate_str of the final re-compression pass, lines 446-457
FinalBitrateString(size, d) ==
    BitrateString(VideoKbps(size, d, FinalPassSafetyFactor))

(* ------------------- compress_and_send_video helpers -------------------- *)
RECURSIVE HasDigits(_, _)
\* the three decimal digits pat occur in the decimal text of n >= 0
HasDigits(n, pat) ==
    /\ n >= 100
    /\ (n % 1000 = pat \/ HasDigits(n \div 10, pat))

\* str(e) of "FFmpeg encoding failed with return code <rc>" contains 234 or 244
MessageHasMemoryCode(rc) == HasDigits(rc, 234) \/ HasDigits(rc, 244)

\* A retry decision that looks at the return code only.
RetryOnReturnCodeOnly(att, cdc, mem, rc) == att = 0 /\ MessageHasMemoryCode(rc)

\* A retry decision that looks at the memory-error line only.
RetryOnMemoryLineOnly(att, cdc, mem, rc) == mem /\ att = 0 /\ cdc # "h264"

\* After a non-zero exit: TRUE when the for-loop continues to the next attempt.
RetryAfterFailure(att, cdc, mem, rc) ==
    \/ (mem /\ att = 0 /\ cdc # "h264")
    \/ (att = 0 /\ MessageHasMemoryCode(rc))

VaapiCodecs == {"h264_vaapi", "hevc_vaapi"}
NoFilter == [filters |-> << >>, w |-> 0, h |-> 0]
ScaleTo(res) == [filters |-> << "scale" >>, w |-> res.w, h |-> res.h]
CommonOptions == {"-y", "-ss", "-i", "-t", "-c:v", "-c:a", "-movflags"}

\* A builder without the stream-copy branch: every command re-encodes.
BuildCommandNoCopy(cdc, bitrate, res, d, output, device, deck) ==
    [opts |-> CommonOptions \cup {"-vf", "-b:v", "-b:a", "-preset"},
     hwaccel |-> "", input |-> InputPath, t |-> d,
     vf |-> ScaleTo(res), cv |-> cdc, preset |-> "medium", quality |-> "",
     bv |-> bitrate, ca |-> "aac", ba |-> "128k", output |-> output]

\* The ffmpeg command of one attempt, lines 468-586: the option names it
\* holds and the values of its options ("" and << >> when absent).
\* cdc is the codec in hand after the attempt == 1 override, bitrate the
\* text of the bitrate parameter, res the resolution parameter, d the clip
\* duration in ms.
BuildCommand(cdc, bitrate, res, d, output, device, deck) ==
    LET reencode ==
            [opts |-> CommonOptions \cup {"-vf", "-b:v", "-b:a"},
             hwaccel |-> "", input |-> InputPath, t |-> d,
             vf |-> ScaleTo(res), cv |-> cdc, preset |-> "", quality |-> "",
             bv |-> bitrate, ca |-> "aac", ba |-> "128k", output |-> output]
        software ==
            [reencode EXCEPT !.opts = @ \cup {"-preset"}, !.preset = "medium"]
        vaapi ==
            [reencode EXCEPT !.opts = @ \cup {"-hwaccel", "-hwaccel_device"},
                             !.hwaccel = "vaapi"]
    IN  IF bitrate = << "0" >>
        THEN [opts |-> CommonOptions,
              hwaccel |-> "", input |-> InputPath, t |-> d,
              vf |-> NoFilter, cv |-> "copy", preset |-> "", quality |-> "",
              bv |-> << >>, ca |-> "copy", ba |-> "", output |-> output]
        ELSE IF cdc \in VaapiCodecs
        THEN IF device
             THEN IF deck
                  THEN [vaapi EXCEPT !.vf = [filters |-> << "format=nv12", "hwupload" >>,
                                             w |-> 0, h |-> 0]]
                  ELSE [vaapi EXCEPT !.vf = [filters |-> << "format=nv12", "hwupload",
                                                           "scale_vaapi" >>,
                                             w |-> 1920, h |-> 1080]]
             ELSE [software EXCEPT !.cv = "h264"]
        ELSE IF cdc = "h264_amf"
        THEN [reencode EXCEPT !.opts = @ \cup {"-quality"}, !.quality = "balanced"]
        ELSE software

\* An entry that does not look at FORCE_SOFTWARE_ENCODING.
EntryCodecAsGiven(force, cdc) == cdc

\* Lines 421-425: FORCE_SOFTWARE_ENCODING == '1' replaces the codec argument.
EntryCodec(force, cdc) == IF force THEN "h264" ELSE cdc

\* A retry that keeps the codec of the first attempt.
AttemptCodecKept(att, cdc) == cdc

\* `if attempt == 1: codec = "h264"`, lines 459-462
AttemptCodec(att, cdc) == IF att = 1 THEN "h264" ELSE cdc

\* The codec the command of this attempt is built for.
CommandCodec(att, cdc, device) ==
    LET c1 == AttemptCodec(att, cdc)
    IN  IF c1 \in VaapiCodecs /\ ~device THEN "h264" ELSE c1

(* --------------------------- outer handler ------------------------------ *)
\* An outer handler that catches ValueError only.
CatchesValueErrorOnly(e) == e.type = "ValueError"

\* `except Exception as e` of compress_clip catches every exception raised
\* inside the try block.
OuterHandlerCatches(e) == TRUE

\* A failure result that still reports the output path and the last size.
FailureResultWithPath(e) ==
    [success |-> FALSE, message |-> "Error processing video: " \o e.msg,
     file_path |-> OutputPath, file_size |-> final_file_size,
     webhook_success |-> FALSE]

FailureResult(e) ==
    [success |-> FALSE, message |-> "Error processing video: " \o e.msg,
     file_path |-> NullPath, file_size |-> 0, webhook_success |-> FALSE]

\* A cleanup loop that stops after the first entry of the list.
RemoveFirstOnly(f, paths) ==
    [p \in Paths |-> IF paths # << >> /\ paths[1] = p THEN NoFile ELSE f[p]]

RemoveAll(f, paths) ==
    [p \in Paths |-> IF \E i \in 1..Len(paths) : paths[i] = p THEN NoFile ELSE f[p]]


CallbackMonotone(v) == cbVal' = Max(v, cbVal) /\ cbCalled' = TRUE
Callback(v) == cbVal' = v /\ cbCalled' = TRUE
NoCallback == UNCHANGED << cbVal, cbCalled >>

(* ------------------------------- Init ----------------------------------- *)
(* --------------------- the window and its range slider ------------------ *)
\* Handle positions are percentages with three decimals: the model counts
\* them in units of 0.001 %.
FullScale == 100 * 1000
max_clip_duration == 30000
NoHandle == "None"
NoPath == "None"
NoClip == [start_time |-> -1, end_time |-> -1]

\* The state after MainWindow.__init__ and RangeSlider.__init__.
UiConstructed ==
    /\ lower_value = 0
    /\ upper_value = FullScale
    /\ active_handle = NoHandle
    /\ video_duration = 0
    /\ enforce_duration_limit = TRUE
    /\ video_path = NoPath
    /\ clip = NoClip

\* The window with no event delivered to it.
UiIdle == UiConstructed /\ slider_parent_has_limit = FALSE

NoCalc == [fn |-> "none", size |-> 0, duration |-> 0,
           resolution |-> NoResolution, text |-> << >>, plan |-> << >>,
           codec |-> "", attempt |-> 0, device |-> FALSE, deck |-> FALSE,
           elapsed |-> 0, cmd |-> << >>, progress |-> -1,
           mem |-> FALSE, rc |-> 0, outcome |-> "", force |-> FALSE]

\* The state at entry of compress_clip.  A file may already be at
\* output_path.  The webhook list and the answers of the probes are drawn
\* where the code first reads them.
LocalsInit ==
    /\ original_file_size = 0
    /\ spawned = {}
    /\ pc = "start"
    /\ tiers = << >>
    /\ tier_idx = 0
    /\ attempt = 0
    /\ codec = ""
    /\ encElapsed = 0
    /\ lastExit = NoExit
    /\ encLog = << >>
    /\ temp_files_created = << >>
    /\ best_attempt_so_far = NoBest
    /\ successful_compression = FALSE
    /\ final_file_size = 0
    /\ webhooks = 0
    /\ webhook_idx = 0
    /\ webhook_success = FALSE
    /\ exc = NoExc
    /\ result = NoResultYet
    /\ cbVal = 0
    /\ cbCalled = FALSE
    /\ tierSize = [i \in 1..MaxTiers |-> NotObserved]
    /\ acceptedTier = 0
    /\ sendLog = << >>

Init ==
    /\ duration \in Durations
    /\ env \in Environments
    /\ max_size \in RequestedSizes
    /\ requested_max_size = max_size
    /\ fs \in { [p \in Paths |-> IF p = OutputPath THEN f ELSE NoFile] :
                  f \in {NoFile, [origin |-> 0, size |-> 1]} }
    /\ LocalsInit
    /\ calc = NoCalc
    /\ UiIdle

paramVars == << duration, env, requested_max_size, calc, uiVars >>
sizeVars == << max_size, original_file_size >>
encVars == << attempt, codec, encElapsed, lastExit, encLog >>
tierVars == << tiers, tier_idx >>
outcomeVars == << best_attempt_so_far, successful_compression,
                  final_file_size, tierSize, acceptedTier >>
webhookVars == << webhooks, webhook_idx, webhook_success, sendLog >>

(* ------------------------ compress_clip: set-up ------------------------- *)
\* A set-up without the clamp to the source size.
RequestedMaxSize(requested, size) == requested

\* A set-up that takes the larger of the two sizes.
LargerOfSizes(requested, size) ==
    IF requested > size THEN requested ELSE size

\* `if max_size > original_file_size: max_size = original_file_size`
EffectiveMaxSize(requested, size) ==
    IF requested > size THEN size ELSE requested

\* A set-up that leaves a file found at output_path where it is.
KeepOutput(f) == f

\* `if os.path.exists(output_path): os.remove(output_path)`, lines 277-282
RemoveOutput(f) == [f EXCEPT ![OutputPath] = NoFile]

\* The resolution probe started before the input is validated.
ProbeBeforeValidation(size, d) == {"ffprobe"}

\* The external programs the set-up has started when it ends: ffprobe
\* (_get_video_resolution, line 290) runs after os.path.getsize (267) has
\* returned and the duration check (284-287) has passed.
ProcessesOfSetup(size, d) ==
    IF size = Unreadable \/ d <= 0 THEN {} ELSE {"ffprobe"}

\* Lines 263-337: source size, clamp, removal of an existing output file,
\* duration check, resolution probe, tier planning.
Begin ==
    /\ pc = "start"
    /\ \E size \in SourceSizes, original_resolution \in Resolutions :
         /\ original_file_size' = size
         /\ spawned' = ProcessesOfSetup(size, duration)
         /\ IF size = Unreadable
            THEN /\ exc' = [type |-> "OSError", msg |-> "No such file or directory"]
                 /\ pc' = "fatal"
                 /\ UNCHANGED << max_size, fs, tiers, tier_idx >>
            ELSE /\ max_size' = EffectiveMaxSize(max_size, size)
                 /\ fs' = RemoveOutput(fs)
                 /\ IF duration <= 0
                    THEN /\ exc' = [type |-> "ValueError",
                                    msg |-> "Clip duration must be positive for compression."]
                         /\ pc' = "fatal"
                         /\ UNCHANGED << tiers, tier_idx >>
                    ELSE /\ tiers' = PlanTiers(original_resolution)
                         /\ tier_idx' = 1
                         /\ pc' = "tier"
                         /\ exc' = exc
    /\ NoCallback
    /\ UNCHANGED << paramVars, encVars, temp_files_created, outcomeVars,
                    webhookVars, result >>

(* ------------------------ compress_clip: one tier ----------------------- *)
CurrentTemp == TempPath(tiers[tier_idx].label)

\* Lines 339-385 and the entry of compress_and_send_video (421-449).
TierStart ==
    /\ pc = "tier"
    /\ temp_files_created' = Append(temp_files_created, CurrentTemp)
    /\ codec' = EntryCodec(env.forceSW, env.codec)
    /\ fs' = [fs EXCEPT ![CurrentTemp] = NoFile]
    /\ attempt' = 0
    /\ encLog' = << >>
    /\ pc' = "spawn"
    /\ NoCallback
    /\ UNCHANGED << paramVars, sizeVars, spawned, tierVars, encElapsed,
                    lastExit, outcomeVars, webhookVars, exc, result >>

\* Lines 457-603: command construction and subprocess.Popen.
EncSpawn ==
    /\ pc = "spawn"
    /\ codec' = CommandCodec(attempt, codec, env.vaapiDevice)
    /\ encLog' = Append(encLog,
                        BuildCommand(AttemptCodec(attempt, codec),
                                     TierBitrateString(max_size * SizeUnit, duration),
                                     tiers[tier_idx], duration, CurrentTemp,
                                     env.vaapiDevice, env.steamDeck))
    /\ spawned' = spawned \cup {"ffmpeg"}
    /\ lastExit' = NoExit
    /\ encElapsed' = 0
    /\ pc' = "run"
    /\ NoCallback
    /\ UNCHANGED << paramVars, sizeVars, tierVars, attempt, fs,
                    temp_files_created, outcomeVars, webhookVars, exc,
                    result >>

\* tier_ffmpeg_progress_callback(p_ffmpeg), lines 343-345
TierCallback(p) == Callback(TierProgress(Len(tiers), tier_idx - 1, p))

\* Lines 605-624: one stderr line carrying a time= marker.
EncProgress ==
    /\ pc = "run"
    /\ \E e \in ElapsedValues :
          /\ e >= encElapsed
          /\ encElapsed' = e
          /\ TierCallback(EncoderProgress(e, duration))
    /\ UNCHANGED << paramVars, sizeVars, spawned, pc, tierVars, attempt, codec,
                    lastExit, encLog, fs, temp_files_created, outcomeVars,
                    webhookVars, exc, result >>

\* What the process left at its output path: nothing, or a file.
WriteOutcomes(rc) ==
    {NoFile} \cup
    { [origin |-> tier_idx, size |-> s] :
        s \in IF rc = 0 THEN 0..MaxFileSize ELSE {1} }

\* An exit test that takes return code 1 for success as well.
ExitAtMostOneSucceeds(rc) == rc <= 1

\* `if returncode != 0`, line 629
ProcessSucceeded(rc) == rc = 0

\* Lines 605-659: the process ends; success, retry in software, or raise.
EncExit ==
    /\ pc = "run"
    /\ \E rc \in ReturnCodes, mem \in BOOLEAN :
        \E wr \in WriteOutcomes(rc) :
          /\ (rc = 0 => ~mem)
          /\ lastExit' = [rc |-> rc, mem |-> mem]
          /\ fs' = IF wr = NoFile THEN fs ELSE [fs EXCEPT ![CurrentTemp] = wr]
          /\ IF ProcessSucceeded(rc)
             THEN /\ TierCallback(100)
                  /\ pc' = "eval"
                  /\ attempt' = attempt
             ELSE IF RetryAfterFailure(attempt, codec, mem, rc)
             THEN /\ NoCallback
                  /\ pc' = "spawn"
                  /\ attempt' = 1
             ELSE /\ NoCallback
                  /\ pc' = "tier_exc"
                  /\ attempt' = attempt
    /\ encElapsed' = 0
    /\ UNCHANGED << paramVars, sizeVars, spawned, tierVars, codec, encLog,
                    temp_files_created, outcomeVars, webhookVars, exc,
                    result >>

\* A loop that is left as soon as one tier is given up.
AbortLoop == tier_idx' = tier_idx /\ pc' = "after_loop"

\* The for-loop's step: the next tier, or the code after the loop.
Advance ==
    IF tier_idx < Len(tiers)
    THEN tier_idx' = tier_idx + 1 /\ pc' = "tier"
    ELSE tier_idx' = tier_idx /\ pc' = "after_loop"

\* compress_and_send_video is left: its locals are gone.
LeaveEncoder ==
    /\ attempt' = 0
    /\ codec' = ""
    /\ lastExit' = NoExit
    /\ encLog' = << >>
    /\ UNCHANGED encElapsed

\* Lines 408-411: compress_and_send_video raised.
TierExcept ==
    /\ pc = "tier_exc"
    /\ TierCallback(100)
    /\ Advance
    /\ LeaveEncoder
    /\ UNCHANGED << paramVars, sizeVars, spawned, tiers, fs, temp_files_created,
                    outcomeVars, webhookVars, exc, result >>

\* Lines 392-395
UpdateBest(best, path, size, label) ==
    IF size < best.size
    THEN [path |-> path, size |-> size, label |-> label]
    ELSE best

\* A size test that accepts every output file.
AcceptsAnyOutput(size, limit) == size >= 0

\* The size test with < in place of <=.
MeetsTargetStrict(size, limit) == size < limit

\* `if current_tier_size <= max_size`, line 397
MeetsTarget(size, limit) == size <= limit

\* Lines 387-406: compress_and_send_video returned.
TierEvaluate ==
    /\ pc = "eval"
    /\ IF Exists(fs, CurrentTemp)
       THEN LET current_tier_size == fs[CurrentTemp].size IN
            /\ tierSize' = [tierSize EXCEPT ![tier_idx] = current_tier_size]
            /\ best_attempt_so_far' =
                   UpdateBest(best_attempt_so_far, CurrentTemp,
                              current_tier_size, tiers[tier_idx].label)
            /\ IF MeetsTarget(current_tier_size, max_size)
               THEN /\ fs' = [fs EXCEPT ![OutputPath] = fs[CurrentTemp],
                                        ![CurrentTemp] = NoFile]
                    /\ final_file_size' = current_tier_size
                    /\ successful_compression' = TRUE
                    /\ acceptedTier' = tier_idx
                    /\ Callback(compression_progress_total_allocation)
                    /\ pc' = "after_loop"
                    /\ tier_idx' = tier_idx
               ELSE /\ Advance
                    /\ NoCallback
                    /\ UNCHANGED << fs, final_file_size,
                                    successful_compression, acceptedTier >>
       ELSE /\ Advance
            /\ NoCallback
            /\ UNCHANGED << fs, outcomeVars >>
    /\ LeaveEncoder
    /\ UNCHANGED << paramVars, sizeVars, spawned, tiers, temp_files_created,
                    webhookVars, exc, result >>

(* --------------------- compress_clip: after the loop -------------------- *)
\* Lines 413-429.  The recovery stage (429-508) starts at pc = "recovery".
AfterLoop ==
    /\ pc = "after_loop"
    /\ IF ~successful_compression
       THEN /\ Callback(0)
            /\ fs' = RemoveAll(fs, temp_files_created)
            /\ exc' = [type |-> "Exception",
                       msg |-> "Failed to generate a compressed video file after all attempts."]
            /\ pc' = "fatal"
       ELSE /\ NoCallback
            /\ UNCHANGED << fs, exc >>
            /\ pc' = IF final_file_size > max_size THEN "recovery" ELSE "cleanup"
    /\ UNCHANGED << paramVars, sizeVars, spawned, tierVars, encVars,
                    temp_files_created, outcomeVars, webhookVars, result >>

\* Lines 511-529: temp-file cleanup, then the first webhook progress value
\* int(90 + 10 / 2) when the webhook list is not empty.
Cleanup ==
    /\ pc = "cleanup"
    /\ fs' = RemoveAll(fs, SelectSeq(temp_files_created,
                                     LAMBDA p : p # OutputPath))
    /\ \E n \in 0..MaxWebhooks :
          /\ webhooks' = n
          /\ IF n > 0
             THEN /\ Callback(compression_progress_total_allocation
                              + (100 - compression_progress_total_allocation) \div 2)
                  /\ webhook_idx' = 1
                  /\ pc' = "send"
             ELSE /\ NoCallback
                  /\ webhook_idx' = webhook_idx
                  /\ pc' = "finish"
    /\ UNCHANGED << paramVars, sizeVars, spawned, tierVars, encVars,
                    temp_files_created, outcomeVars, webhook_success,
                    sendLog, exc, result >>

\* Lines 531-540: send_to_discord returns True or raises; a raise leaves the
\* for-loop through the enclosing except.
WebhookSend ==
    /\ pc = "send"
    /\ \E ok \in BOOLEAN :
          /\ sendLog' = Append(sendLog, ok)
          /\ IF ok
             THEN /\ webhook_success' = TRUE
                  /\ IF webhook_idx < webhooks
                     THEN webhook_idx' = webhook_idx + 1 /\ pc' = "send"
                     ELSE webhook_idx' = webhook_idx /\ pc' = "finish"
             ELSE /\ webhook_success' = webhook_success
                  /\ webhook_idx' = webhook_idx
                  /\ pc' = "finish"
    /\ NoCallback
    /\ UNCHANGED << paramVars, sizeVars, spawned, tierVars, encVars, fs,
                    temp_files_created, outcomeVars, webhooks, exc, result >>

\* Lines 544-554
Finish ==
    /\ pc = "finish"
    /\ Callback(100)
    /\ result' = [success |-> TRUE, message |-> "Video processed successfully",
                  file_path |-> OutputPath, file_size |-> final_file_size,
                  webhook_success |-> webhook_success]
    /\ pc' = "done"
    /\ UNCHANGED << paramVars, sizeVars, spawned, tierVars, encVars, fs,
                    temp_files_created, outcomeVars, webhookVars, exc >>

\* Lines 556-578: the outer except.
FatalHandler ==
    /\ pc = "fatal"
    /\ IF OuterHandlerCatches(exc)
       THEN /\ Callback(0)
            /\ fs' = RemoveAll(fs, temp_files_created)
            /\ result' = FailureResult(exc)
            /\ pc' = "done"
       ELSE /\ NoCallback
            /\ UNCHANGED << fs, result >>
            /\ pc' = "raised"
    /\ UNCHANGED << paramVars, sizeVars, spawned, tierVars, encVars,
                    temp_files_created, outcomeVars, webhookVars, exc >>

Next ==
    \/ Begin
    \/ TierStart
    \/ EncSpawn
    \/ EncProgress
    \/ EncExit
    \/ TierExcept
    \/ TierEvaluate
    \/ AfterLoop
    \/ Cleanup
    \/ WebhookSend
    \/ Finish
    \/ FatalHandler

Spec == Init /\ [][Next]_vars

\* One call with a positive duration on a machine whose encoder is the
\* software codec or NVENC.  compress_clip runs on one thread: Popen follows
\* the command construction at once, and a child process that ends is
\* noticed by the stderr loop (readline returns '' and poll() is not None).
RetryEnvironments ==
    { e \in Environments : e.codec \in {"h264", "h264_nvenc"} /\ ~e.forceSW }
InitRetry == Init /\ env \in RetryEnvironments /\ duration > 0
SpecRetry ==
    InitRetry /\ [][Next]_vars /\ WF_vars(EncSpawn) /\ WF_vars(EncExit)

\* Calls made while a file of an earlier run is at output_path.
InitOverwrite ==
    Init /\ env \in RetryEnvironments /\ Exists(fs, OutputPath)
SpecOverwrite == InitOverwrite /\ [][Next]_vars

(* ======================================================================= *)
(*        The planning and bitrate functions exercised on their own        *)
(* ======================================================================= *)
\* Probe answers: None, and every width x height over values below, at and
\* above the ladder's widths and heights, landscape and portrait.
CalcWidths == {320, 640, 641, 854, 1000, 1280, 1920, 2560, 3840}
CalcHeights == {240, 360, 361, 480, 600, 720, 1080, 1440, 2160}
CalcResolutions ==
    {NoResolution} \cup { [w |-> w, h |-> h] : w \in CalcWidths, h \in CalcHeights }
\* max_size in bytes and duration in ms, from degenerate to ordinary values
CalcSizes == {1, 1000, 400000, 1048576, 8388608, 10485760}
CalcDurations == {1, 500, 3000, 30000, 600000}

CalcInit ==
    /\ duration = 0
    /\ env = [codec |-> "h264", vaapiDevice |-> FALSE, steamDeck |-> FALSE,
              forceSW |-> FALSE]
    /\ max_size = 1
    /\ requested_max_size = 1
    /\ fs = [p \in Paths |-> NoFile]
    /\ LocalsInit
    /\ UiIdle
    /\ calc \in { [NoCalc EXCEPT !.size = s, !.duration = d, !.resolution = r] :
                     s \in CalcSizes, d \in CalcDurations, r \in CalcResolutions }

pipelineVars ==
    << duration, env, pc, max_size, requested_max_size, original_file_size,
       spawned, tiers, tier_idx, attempt, codec, encElapsed,
       lastExit, encLog, fs, temp_files_created, best_attempt_so_far,
       successful_compression, final_file_size, webhooks, webhook_idx,
       webhook_success, exc, result, cbVal, cbCalled, tierSize, acceptedTier,
       sendLog >>

\* Lines 292-320 applied to the probe answer.
CalcPlanTiers ==
    /\ calc.fn = "none"
    /\ calc' = [calc EXCEPT !.fn = "plan", !.plan = PlanTiers(calc.resolution)]
    /\ UNCHANGED << pipelineVars, uiVars >>

\* Lines 350-370 applied to max_size and duration.
CalcTierBitrate ==
    /\ calc.fn = "none"
    /\ calc' = [calc EXCEPT !.fn = "tier_bitrate",
                            !.text = TierBitrateString(calc.size, calc.duration)]
    /\ UNCHANGED << pipelineVars, uiVars >>

\* Lines 446-457 applied to max_size and duration.
CalcFinalBitrate ==
    /\ calc.fn = "none"
    /\ calc' = [calc EXCEPT !.fn = "final_bitrate",
                            !.text = FinalBitrateString(calc.size, calc.duration)]
    /\ UNCHANGED << pipelineVars, uiVars >>

CalcNext ==
    \/ CalcPlanTiers
    \/ CalcTierBitrate
    \/ CalcFinalBitrate

SpecCalc == CalcInit /\ [][CalcNext]_vars

(* ======================================================================= *)
(*        The encoder call's command construction and progress report       *)
(* ======================================================================= *)
\* The parameters of compress_and_send_video and what it reads from the
\* machine and from the child's stderr: the codec, the bitrate text ("0"
\* asks for a stream copy), the resolution, the clip duration and the
\* elapsed time of a time= marker (both in ms), the attempt of the retry
\* loop, whether a VA-API device is found and whether this is a Steam Deck.
EncBitrates == { << "0" >>, << "2", "5", "0", "k" >>, << "2", "5", "0", "0", "k" >> }
EncResolutions ==
    { [w |-> 1920, h |-> 1080, label |-> "1080p"],
      [w |-> 1280, h |-> 720, label |-> "720p"],
      [w |-> 320, h |-> 240, label |-> "original"] }
EncDurations == {1000, 3000}
EncElapsed == {0, 500, 2000, 2100, 2990, 3000, 4000}
EncReturnCodes == {0, 1, 134, 234, 244, 2341}

EncInit ==
    /\ duration = 0
    /\ env = [codec |-> "h264", vaapiDevice |-> FALSE, steamDeck |-> FALSE,
              forceSW |-> FALSE]
    /\ max_size = 1
    /\ requested_max_size = 1
    /\ fs = [p \in Paths |-> NoFile]
    /\ LocalsInit
    /\ UiIdle
    /\ calc \in { [NoCalc EXCEPT !.codec = c, !.attempt = a, !.device = dev,
                                 !.deck = dk, !.text = b, !.resolution = r,
                                 !.duration = d, !.elapsed = e,
                                 !.mem = m, !.rc = rc, !.force = f] :
                     c \in Codecs, a \in {0, 1}, dev \in BOOLEAN,
                     dk \in BOOLEAN, b \in EncBitrates, r \in EncResolutions,
                     d \in EncDurations, e \in EncElapsed,
                     m \in BOOLEAN, rc \in EncReturnCodes, f \in BOOLEAN }

\* Lines 457-586: the command of one pass of the retry loop.
EncBuildCommand ==
    /\ calc.fn = "none"
    /\ calc' = [calc EXCEPT
                  !.fn = "command",
                  !.cmd = BuildCommand(AttemptCodec(calc.attempt,
                                                    EntryCodec(calc.force,
                                                               calc.codec)),
                                       calc.text, calc.resolution,
                                       calc.duration, OutputPath,
                                       calc.device, calc.deck)]
    /\ UNCHANGED << pipelineVars, uiVars >>

\* Lines 617-624: the percentage reported for one time= marker.
EncReportProgress ==
    /\ calc.fn = "none"
    /\ calc' = [calc EXCEPT
                  !.fn = "progress",
                  !.progress = EncoderProgress(calc.elapsed, calc.duration)]
    /\ UNCHANGED << pipelineVars, uiVars >>

\* Lines 626-659: what the pass does when its process has ended with return
\* code rc, mem telling whether a memory-error line was read from stderr.
\* The codec tested at line 633 is the one the command was built for.
ExitOutcome(att, cdc, mem, rc) ==
    IF ProcessSucceeded(rc) THEN "return"
    ELSE IF RetryAfterFailure(att, cdc, mem, rc) THEN "retry"
    ELSE "raise"

EncHandleExit ==
    /\ calc.fn = "none"
    /\ (calc.rc = 0 => ~calc.mem)
    /\ calc' = [calc EXCEPT
                  !.fn = "exit",
                  !.outcome = ExitOutcome(calc.attempt,
                                          CommandCodec(calc.attempt,
                                                       EntryCodec(calc.force,
                                                                  calc.codec),
                                                       calc.device),
                                          calc.mem, calc.rc)]
    /\ UNCHANGED << pipelineVars, uiVars >>

EncNext ==
    \/ EncBuildCommand
    \/ EncReportProgress
    \/ EncHandleExit

SpecEnc == EncInit /\ [][EncNext]_vars

(* ======================================================================= *)
(*                 The range slider and the main window                     *)
(* ======================================================================= *)
\* The width of the slider in pixels, the x coordinates of mouse events
\* (a drag may leave the widget on either side) and the durations the media
\* player reports, in ms: nothing loaded, 20 s, 2 min, 2 h.
SliderWidth == 800
PointerXs == {-10, 0, 4, 8, 80, 200, 400, 404, 600, 800, 850}
VideoDurations == {0, 20000, 120000, 7200000}
CheckStates == {0, 2}          \* Qt.Unchecked, Qt.Checked

\* round(a / b) of Python 3 for integers a and b > 0: ties go to the even
\* neighbour.
RoundHalfEven(a, b) ==
    LET q == a \div b
        r == a % b
    IN  IF 2 * r < b THEN q
        ELSE IF 2 * r > b THEN q + 1
        ELSE IF q % 2 = 0 THEN q ELSE q + 1

\* Durations are whole seconds on the inputs above; the products below are
\* taken with the seconds to stay inside 32 bits.
Seconds(d) == d \div 1000

\* max(0, min(100, round(pos.x() / width * 100, 3))), in 0.001 %
PointerValue(x) ==
    Max(0, Min(FullScale, RoundHalfEven(x * FullScale, SliderWidth)))

\* max(0, min(100, int(pos.x() / width * 100))), in %
PointerPercent(x) == Max(0, Min(100, (x * 100) \div SliderWidth))

\* int(value / 100 * rect.width()): the pixel of a handle
HandleX(v) == (v * SliderWidth) \div FullScale

\* QRect(handle_x - handle_width, y, 2 * handle_width, h).contains(point)
HandleHit(v, x) == HandleX(v) - 10 <= x /\ x <= HandleX(v) + 9

\* round((upper - lower) / 100 * video_duration), in ms
SpanMs(span, d) == RoundHalfEven(span * Seconds(d), 100)

\* round((max_clip_duration / video_duration) * 100, 3), in 0.001 %
MaxDurationPercent(d) == RoundHalfEven(max_clip_duration * 100, Seconds(d))

Abs(n) == IF n < 0 THEN -n ELSE n

\* An update_range that never moves the end handle.
UpdateRangeUnclamped(lower, upper, d, enforce) == upper

\* MainWindow.update_range(lower, upper), lines 706-719: the end handle it
\* leaves in the slider.
UpdateRange(lower, upper, d, enforce) ==
    IF d > 0 /\ enforce /\ SpanMs(upper - lower, d) > max_clip_duration
    THEN Min(FullScale, lower + MaxDurationPercent(d))
    ELSE upper

uiFrame == UNCHANGED << pipelineVars, calc, slider_parent_has_limit >>
UiReady == clip = NoClip

UiInit ==
    /\ duration = 0
    /\ env = [codec |-> "h264", vaapiDevice |-> FALSE, steamDeck |-> FALSE,
              forceSW |-> FALSE]
    /\ max_size = 1
    /\ requested_max_size = 1
    /\ fs = [p \in Paths |-> NoFile]
    /\ LocalsInit
    /\ calc = NoCalc
    /\ UiConstructed
    /\ slider_parent_has_limit \in BOOLEAN

\* MainWindow.load_video, lines 493-522, when a file is chosen.
LoadVideo ==
    /\ UiReady
    /\ video_path' = "video.mp4"
    /\ lower_value' = 0
    /\ upper_value' = FullScale
    /\ UNCHANGED << active_handle, video_duration, enforce_duration_limit,
                    clip >>
    /\ uiFrame

\* min(100, int(thirty_seconds_percent + 0.5)), lines 656-660
InitialUpper(d) == 1000 * Min(100, (2 * 3000000 + d) \div (2 * d))

\* MainWindow.duration_changed, lines 641-672, on the player's signal.
DurationChanged ==
    /\ UiReady
    /\ video_path # NoPath
    /\ \E d \in VideoDurations :
          IF d <= 0
          THEN UNCHANGED << lower_value, upper_value, video_duration >>
          ELSE LET upper == IF enforce_duration_limit THEN InitialUpper(d)
                            ELSE FullScale
               IN  /\ video_duration' = d
                   /\ lower_value' = 0
                   /\ upper_value' = UpdateRange(0, upper, d,
                                                 enforce_duration_limit)
    /\ UNCHANGED << active_handle, enforce_duration_limit, video_path, clip >>
    /\ uiFrame

\* RangeSlider.mousePressEvent, lines 119-152.
MousePress ==
    /\ UiReady
    /\ \E x \in PointerXs :
          LET value == 1000 * PointerPercent(x)
          IN  active_handle' =
                IF HandleHit(lower_value, x) \/ HandleHit(upper_value, x)
                THEN IF Abs(value - lower_value) <= Abs(value - upper_value)
                     THEN "lower" ELSE "upper"
                ELSE active_handle
    /\ UNCHANGED << lower_value, upper_value, video_duration,
                    enforce_duration_limit, video_path, clip >>
    /\ uiFrame

\* RangeSlider.mouseMoveEvent, lines 154-201, and the update_range that
\* rangeChanged is connected to.
MouseMove ==
    /\ UiReady
    /\ active_handle # NoHandle
    /\ \E x \in PointerXs :
          LET value == PointerValue(x)
              limited == /\ slider_parent_has_limit
                         /\ enforce_duration_limit
                         /\ video_duration > 0
              lower == IF active_handle = "lower"
                       THEN IF value < upper_value THEN value ELSE lower_value
                       ELSE IF /\ value > lower_value
                               /\ limited
                               /\ SpanMs(value - lower_value, video_duration)
                                     > max_clip_duration
                            THEN value - MaxDurationPercent(video_duration)
                            ELSE lower_value
              upper == IF active_handle = "upper" /\ value > lower_value
                       THEN value ELSE upper_value
          IN  /\ lower_value' = lower
              /\ upper_value' = UpdateRange(lower, upper, video_duration,
                                            enforce_duration_limit)
    /\ UNCHANGED << active_handle, video_duration, enforce_duration_limit,
                    video_path, clip >>
    /\ uiFrame

\* RangeSlider.mouseReleaseEvent, lines 203-210.
MouseRelease ==
    /\ UiReady
    /\ active_handle' = NoHandle
    /\ UNCHANGED << lower_value, upper_value, video_duration,
                    enforce_duration_limit, video_path, clip >>
    /\ uiFrame

\* min(100, int(new_upper)), lines 770-774: the end handle when the limit
\* is switched on over a selection that is too long.
ToggledUpper(lower, upper, d) ==
    IF (upper - lower) * Seconds(d) > max_clip_duration * 100
    THEN 1000 * Min(100, (lower * Seconds(d) + max_clip_duration * 100)
                          \div (1000 * Seconds(d)))
    ELSE upper

\* MainWindow.toggle_duration_limit, lines 746-776.
ToggleDurationLimit ==
    /\ UiReady
    /\ \E state \in CheckStates :
          LET enforce == state # 0
              upper == IF video_duration > 0 /\ enforce
                       THEN ToggledUpper(lower_value, upper_value,
                                         video_duration)
                       ELSE upper_value
          IN  /\ enforce_duration_limit' = enforce
              /\ upper_value' = UpdateRange(lower_value, upper,
                                            video_duration, enforce)
    /\ UNCHANGED << lower_value, active_handle, video_duration, video_path,
                    clip >>
    /\ uiFrame

\* Lines 530-538: start_time and end_time of the clip, in ms.
ClipTimes(lower, upper, d, enforce) ==
    LET start_time == RoundHalfEven(lower * Seconds(d), 100)
        end_time == RoundHalfEven(upper * Seconds(d), 100)
    IN  IF enforce /\ Abs(end_time - start_time - 30000) >= 1
        THEN [start_time |-> start_time, end_time |-> start_time + 30000]
        ELSE [start_time |-> start_time, end_time |-> end_time]

\* MainWindow.drop_video, lines 524-574: the call of the processor.
DropVideo ==
    /\ UiReady
    /\ video_path # NoPath
    /\ clip' = ClipTimes(lower_value, upper_value, video_duration,
                         enforce_duration_limit)
    /\ UNCHANGED << lower_value, upper_value, active_handle, video_duration,
                    enforce_duration_limit, video_path >>
    /\ uiFrame

\* The processor returns and the window handles events again.
DropReturn ==
    /\ clip # NoClip
    /\ clip' = NoClip
    /\ UNCHANGED << lower_value, upper_value, active_handle, video_duration,
                    enforce_duration_limit, video_path >>
    /\ uiFrame

UiNext ==
    \/ LoadVideo
    \/ DurationChanged
    \/ MousePress
    \/ MouseMove
    \/ MouseRelease
    \/ ToggleDurationLimit
    \/ DropVideo
    \/ DropReturn

SpecUi == UiInit /\ [][UiNext]_vars

(* ======================================================================= *)
(*                              Properties                                 *)
(* ======================================================================= *)
TierLoopPcs == {"tier", "spawn", "run", "tier_exc", "eval"}
Observed(j) == tierSize[j] # NotObserved
Fits(j) == Observed(j) /\ tierSize[j] <= max_size
TierIndexOf(label) == CHOOSE j \in 1..Len(tiers) : tiers[j].label = label
SomeTierProduced == \E j \in 1..Len(tiers) : Observed(j)
NoTierFits == \A j \in 1..Len(tiers) : ~Fits(j)
AllTiersOversized ==
    /\ tiers # << >>
    /\ \A j \in 1..Len(tiers) : Observed(j) /\ tierSize[j] > max_size
BestAttemptFile ==
    [origin |-> TierIndexOf(best_attempt_so_far.label),
     size |-> best_attempt_so_far.size]
Returned == pc = "done"

\* C1: first fit.  The tiers are planned in descending area and attempted in
\* that order; a tier whose observed size is <= max_size is accepted at once,
\* so the accepted tier is the first that fits, its file is the one at
\* output_path, and after acceptance the tier loop is over: no later tier is
\* started and no encoder runs.
C1_FirstFit ==
    /\ \A j \in 1..Len(tiers) : \A k \in (j + 1)..Len(tiers) :
          Area(tiers[j]) >= Area(tiers[k])
    /\ \A j \in 1..Len(temp_files_created) :
          temp_files_created[j] = TempPath(tiers[j].label)
    /\ \A j \in 1..Len(tiers) : Fits(j) => acceptedTier = j
    /\ acceptedTier # 0 =>
          /\ Fits(acceptedTier)
          /\ \A j \in 1..(acceptedTier - 1) : ~Fits(j)
          /\ pc \notin TierLoopPcs
          /\ Len(temp_files_created) = acceptedTier
          /\ fs[OutputPath] = [origin |-> acceptedTier,
                               size |-> tierSize[acceptedTier]]

\* C1 witness: the third tier was accepted after the first came out
\* oversized and the second produced nothing, and the call has returned.
C1_Witness ==
    /\ Returned /\ result.success
    /\ acceptedTier = 3
    /\ Observed(1) /\ tierSize[1] > max_size
    /\ ~Observed(2)

\* C2: when every tier produced a file and each is larger than max_size, the
\* code after the loop promotes the smallest tier output to output_path and
\* enters the size-recovery stage.
C2_BestAttemptPromoted ==
    [][(pc = "after_loop" /\ AllTiersOversized)
         => (pc' = "recovery" /\ fs'[OutputPath] = BestAttemptFile)]_vars

\* C3: if no tier produced an output file the call returns a failure; and
\* every failure result has file_path None, file_size 0, webhook_success
\* false and a non-empty message.
C3_FailureResult ==
    Returned =>
      /\ (~SomeTierProduced => ~result.success)
      /\ (~result.success =>
            /\ result.file_path = NullPath
            /\ result.file_size = 0
            /\ ~result.webhook_success
            /\ result.message # "")

\* C3 witness: at least two tiers were tried, none produced a file, and the
\* call returned a failure.
C3_Witness ==
    /\ Returned /\ ~result.success
    /\ Len(tiers) >= 2 /\ Len(temp_files_created) = Len(tiers)
    /\ ~SomeTierProduced

\* C4: compress_clip never propagates an exception: whatever is raised
\* inside it is turned into a result dictionary by the outer handler, and a
\* call that is over has returned a result.
C4_NeverRaises ==
    /\ pc # "raised"
    /\ (exc # NoExc /\ pc \notin {"fatal"} => Returned /\ ~result.success)
    /\ (Returned => result # NoResultYet)

\* C4 witness: the source file could not be read (a file-system failure) and
\* the call returned a failure result.
C4_Witness ==
    /\ Returned /\ exc.type = "OSError" /\ ~result.success

\* C5: the values given to progress_callback never decrease, except for the
\* reset to 0 on fatal failure.
C5_MonotoneProgress ==
    [][cbVal' >= cbVal \/ (cbVal' = 0 /\ pc' \in {"fatal", "done"})]_vars

\* C6: every value given to progress_callback is an integer in 0..100: the
\* value last delivered in every reachable state, and (state-independent,
\* so evaluated at entry) the value each callback formula yields for every
\* tier count, tier and encoder percentage.
C6_ProgressRange ==
    /\ cbVal \in 0..100
    /\ pc = "start" =>
          /\ \A n \in 1..MaxTiers : \A i \in 0..(n - 1) : \A p \in 0..100 :
                TierProgress(n, i, p) \in 0..100
          /\ \A p \in 0..100 : FinalPassProgress(p) \in 0..100
          /\ \A e \in ElapsedValues : \A d \in Durations :
                d > 0 => EncoderProgress(e, d) \in 0..100

\* C6 witness: the encoder of the last of five tiers has reported progress.
C6_Witness ==
    /\ pc = "run" /\ encElapsed > 0
    /\ Len(tiers) = 5 /\ tier_idx = 5
    /\ cbVal > 72

\* C7: when the call has returned, no per-tier temp file and no
\* .temp_oversized_original.mp4 file is left on disk.
C7_NoTempFilesLeft ==
    Returned => \A p \in Paths \ {OutputPath} : ~Exists(fs, p)

\* C7 witness: the call returned with the second tier accepted after the
\* first tier had left an oversized temp file behind.
C7_Witness ==
    /\ Returned /\ acceptedTier = 2
    /\ Observed(1) /\ tierSize[1] > max_size

\* C8: whenever the tiers left only oversized output (the case the
\* size-recovery stage exists for), the file at output_path on return is
\* either a non-empty recompressed file <= max_size or the pre-recovery
\* oversized file unchanged, and file_size reports the size of that file.
C8_RecoveryOutcome ==
    (Returned /\ SomeTierProduced /\ NoTierFits) =>
      /\ Exists(fs, OutputPath)
      /\ \/ (fs[OutputPath].size > 0 /\ fs[OutputPath].size <= max_size)
         \/ fs[OutputPath] = BestAttemptFile
      /\ result.file_size = fs[OutputPath].size

\* C9: partial success.  If some tier produced a file but nothing met
\* max_size, the call returns success with file_path set and file_size the
\* true size of the oversized file left at output_path.
C9_PartialSuccess ==
    (Returned /\ SomeTierProduced /\ NoTierFits) =>
      /\ result.success
      /\ result.file_path = OutputPath
      /\ Exists(fs, OutputPath)
      /\ fs[OutputPath].size > max_size
      /\ result.file_size = fs[OutputPath].size

\* C10: when the first encoder process of a call used a hardware codec and
\* the call reports failure to the orchestrator, a second process with the
\* software codec h264 has been run for that tier.
C10_HardwareFallback ==
    (pc = "tier_exc" /\ encLog[1].cv \in HardwareCodecs) =>
      (Len(encLog) = 2 /\ encLog[2].cv = "h264")

\* C11: upload destinations are independent.  When the call has returned
\* success, every destination of the webhook list has been attempted, also
\* after an earlier destination failed, and webhook_success is true exactly
\* when at least one destination of the list accepted the file.
C11_IndependentUploads ==
    (Returned /\ result.success) =>
      /\ Len(sendLog) = webhooks
      /\ (result.webhook_success <=> \E i \in 1..Len(sendLog) : sendLog[i])

\* C12: the effective max_size, the value every size check and the bitrate
\* calculation of compress_clip read once the set-up has run, equals
\* min(requested max_size, size of the source file) and is never larger than
\* the source file.
C12_EffectiveMaxSize ==
    (pc # "start" /\ original_file_size # Unreadable) =>
      /\ max_size = Min(requested_max_size, original_file_size)
      /\ max_size <= original_file_size
      /\ (acceptedTier # 0 =>
            tierSize[acceptedTier] <= Min(requested_max_size, original_file_size))

\* C12 witness: the caller asked for more than the source file's size and a
\* tier output is about to be compared with max_size.
C12_Witness ==
    /\ pc = "eval"
    /\ requested_max_size > original_file_size
    /\ Exists(fs, CurrentTemp)

\* The number a text of decimal digits denotes; -1 when it is not one.
RECURSIVE TextToNat(_)
TextToNat(t) ==
    IF t = << >> THEN -1
    ELSE LET d == { i \in 0..9 : DigitChars[i + 1] = t[Len(t)] } IN
         IF d = {} THEN -1
         ELSE IF Len(t) = 1 THEN CHOOSE i \in d : TRUE
         ELSE LET rest == TextToNat(SubSeq(t, 1, Len(t) - 1)) IN
              IF rest < 0 THEN -1 ELSE 10 * rest + (CHOOSE i \in d : TRUE)
BitrateComputed == calc.fn \in {"tier_bitrate", "final_bitrate"}
KbpsOf(t) == TextToNat(SubSeq(t, 1, Len(t) - 1))

\* C13: for every duration d > 0 and max_size s > 0 the bitrate string of a
\* tier attempt (safety factor 0.90) and of the final re-compression pass
\* (0.85) is an integer in decimal digits followed by "k", and that integer
\* is at least 250.
C13_BitrateFloor ==
    BitrateComputed =>
      /\ Len(calc.text) >= 2
      /\ calc.text[Len(calc.text)] = "k"
      /\ (calc.text[1] = "0" => Len(calc.text) = 2)
      /\ KbpsOf(calc.text) >= MIN_ABS_VIDEO_BITRATE_KBPS

\* C13 witness: the final pass's bitrate was computed for a size budget
\* smaller than the audio allowance, and the floor was emitted.
C13_Witness ==
    /\ calc.fn = "final_bitrate"
    /\ 2 * FinalPassSafetyFactor * calc.size
          < 25 * AUDIO_BITRATE_KBPS_ALLOWANCE * calc.duration
    /\ calc.text = << "2", "5", "0", "k" >>

Planned == calc.fn = "plan"
FallbackLabels == {"original_fallback", "360p_fallback"}

\* C14: no upscaling in the plan.  For every known source resolution (W,H)
\* every planned tier has width <= W and height <= H, unless the plan is the
\* single synthetic fallback tier.
C14_NoUpscaling ==
    (Planned /\ calc.resolution # NoResolution) =>
      \/ \A i \in 1..Len(calc.plan) :
            /\ calc.plan[i].w <= calc.resolution.w
            /\ calc.plan[i].h <= calc.resolution.h
      \/ (Len(calc.plan) = 1 /\ calc.plan[1].label \in FallbackLabels)

\* C14 witness: a 1920x600 source, for which the width test alone would let
\* the 1080p and 720p entries through, was planned: original, 480p, 360p.
C14_Witness ==
    /\ Planned
    /\ calc.resolution = [w |-> 1920, h |-> 600]
    /\ Len(calc.plan) = 3
    /\ calc.plan[2].label = "480p"

\* C15: tier planning always yields at least one tier, for an unknown source
\* resolution, one larger than every ladder entry and one smaller than every
\* ladder entry; for an unknown resolution the plan is exactly the default
\* ladder 1080p, 720p, 480p, 360p.
C15_PlanNotEmpty ==
    Planned =>
      /\ Len(calc.plan) >= 1
      /\ (calc.resolution = NoResolution =>
            calc.plan = DEFAULT_RESOLUTION_TIERS)

\* C15 witness: a source smaller than every ladder entry was planned and the
\* plan is the source alone.
C15_Witness ==
    /\ Planned
    /\ calc.resolution = [w |-> 320, h |-> 240]
    /\ \A i \in 1..Len(DEFAULT_RESOLUTION_TIERS) :
          ~IsNotUpscale(DEFAULT_RESOLUTION_TIERS[i], calc.resolution)
    /\ Len(calc.plan) = 1

\* C16: the plan has no two tiers with the same (width, height), is ordered
\* by strictly descending pixel area, and for a known source resolution its
\* first element is that resolution labelled "original"; for a 1920x1080
\* source it is exactly original(1920x1080), 720p, 480p, 360p.
C16_PlanOrdered ==
    Planned =>
      /\ \A i \in 1..Len(calc.plan) : \A j \in (i + 1)..Len(calc.plan) :
            /\ ~(calc.plan[i].w = calc.plan[j].w /\ calc.plan[i].h = calc.plan[j].h)
            /\ Area(calc.plan[i]) > Area(calc.plan[j])
      /\ (calc.resolution # NoResolution =>
            calc.plan[1] = [w |-> calc.resolution.w, h |-> calc.resolution.h,
                            label |-> "original"])
      /\ (calc.resolution = [w |-> 1920, h |-> 1080] =>
            calc.plan = << [w |-> 1920, h |-> 1080, label |-> "original"],
                           DEFAULT_RESOLUTION_TIERS[2],
                           DEFAULT_RESOLUTION_TIERS[3],
                           DEFAULT_RESOLUTION_TIERS[4] >>)

\* C16 witness: a 1920x1080 source, which coincides with the ladder's first
\* entry, was planned into four tiers.
C16_Witness ==
    /\ Planned
    /\ calc.resolution = [w |-> 1920, h |-> 1080]
    /\ Len(calc.plan) = 4

InputError == duration <= 0 \/ original_file_size = Unreadable

NullSinks == {"/dev/null", "NUL"}
SoftwareReencode(cmd) == cmd.cv \notin HardwareCodecs \cup {"copy"}
EncoderReturned == pc = "eval"
ProcessExits == pc = "run" /\ pc' # "run"

\* C19: for a software codec with a non-zero bitrate, a tier attempt that
\* completes consists of two encoder invocations in order: pass 1 with a
\* pass/passlogfile pair, audio disabled, writing to a null sink, then pass 2
\* writing the tier's real output with audio; a hardware codec or stream
\* copy that completes at its first invocation used a single invocation.
C19_TwoPassSoftware ==
    EncoderReturned =>
      IF SoftwareReencode(encLog[1])
      THEN /\ Len(encLog) = 2
           /\ {"-pass", "-passlogfile", "-an"} \subseteq encLog[1].opts
           /\ encLog[1].output \in NullSinks
           /\ {"-pass", "-passlogfile"} \subseteq encLog[2].opts
           /\ "-an" \notin encLog[2].opts
           /\ encLog[2].output = CurrentTemp
      ELSE attempt = 0 => Len(encLog) = 1

\* C20: memory-exhaustion fallback.  When the first encoder process of a
\* tier, run with a codec other than h264, exits non-zero after its stderr
\* held "Cannot allocate memory" or "out of memory", the encoder call goes
\* on to a second attempt on the same tier instead of failing the tier; and
\* the process of a second attempt runs codec h264 with the same input,
\* duration, bitrate and output path as the first, before any other tier.
C20_MemoryFallback ==
    [][/\ (ProcessExits /\ attempt = 0 /\ encLog[1].cv # "h264"
             /\ lastExit'.mem /\ lastExit'.rc # 0)
          => (pc' = "spawn" /\ attempt' = 1 /\ tier_idx' = tier_idx
                /\ encLog' = encLog)
       /\ (pc = "spawn" /\ attempt = 1)
          => /\ pc' = "run" /\ tier_idx' = tier_idx
             /\ Len(encLog') = 2
             /\ encLog'[1] = encLog[1]
             /\ encLog'[2].cv = "h264"
             /\ encLog'[2].input = encLog[1].input
             /\ encLog'[2].t = encLog[1].t
             /\ encLog'[2].bv = encLog[1].bv
             /\ encLog'[2].output = encLog[1].output
             /\ encLog'[2].output = TempPath(tiers[tier_idx].label)
      ]_vars

\* C20 witness: on the second tier the first process ran hevc_vaapi,
\* reported a memory error and exited 1, and the second attempt is about to
\* spawn its process.
C20_Witness ==
    /\ pc = "spawn" /\ attempt = 1
    /\ tier_idx = 2
    /\ Len(encLog) = 1 /\ encLog[1].cv = "hevc_vaapi"
    /\ lastExit = [rc |-> 1, mem |-> TRUE]

TierGivenUp == pc = "tier_exc" \/ (pc = "eval" /\ ~Exists(fs, CurrentTemp))

\* C21: a failing tier does not abort the pipeline.  When the encoder call
\* for tier k raised, or returned without leaving a file, and k is not the
\* last tier, the next step starts on tier k+1 (tier k is not tried again);
\* and whenever a tier is accepted the call returns success = true, whatever
\* happened to the tiers before it.
C21_FailingTierSkipped ==
    [][/\ (TierGivenUp /\ tier_idx < Len(tiers))
          => (pc' = "tier" /\ tier_idx' = tier_idx + 1 /\ tiers' = tiers)
       /\ (pc' = "done" /\ acceptedTier' # 0) => result'.success
      ]_vars

\* C21 witness: the first tier was given up without an observed output, the
\* second was accepted, and the call returned success.
C21_Witness ==
    /\ Returned /\ result.success
    /\ acceptedTier = 2
    /\ ~Observed(1)

AfterEvaluation == pc \in {"tier", "after_loop"} /\ temp_files_created # << >>
ObservedSizes == { tierSize[j] : j \in { k \in 1..Len(tiers) : Observed(k) } }
BestIsSmallestObserved ==
    IF SomeTierProduced
    THEN /\ best_attempt_so_far.size \in ObservedSizes
         /\ \A s \in ObservedSizes : best_attempt_so_far.size <= s
    ELSE best_attempt_so_far = NoBest
TempFilesOnDisk == { p \in Paths \ {OutputPath} : Exists(fs, p) }

\* C22: best-attempt retention.  After each tier has been evaluated the
\* best-attempt record names the smallest output size observed so far in
\* this call, and the only per-tier temporary file still on disk is that
\* best attempt's file.
C22_BestAttemptRetention ==
    AfterEvaluation =>
      /\ BestIsSmallestObserved
      /\ TempFilesOnDisk \subseteq {best_attempt_so_far.path}

\* C23: terminal progress value.  When compress_clip returns, the last
\* value handed to the progress callback is 0 if the result has
\* success = false and 100 if it has success = true, uploads that failed
\* included.
C23_TerminalProgress ==
    Returned => /\ cbCalled
                /\ cbVal = IF result.success THEN 100 ELSE 0
C23_Witness ==
    /\ Returned /\ result.success
    /\ webhooks > 0 /\ ~result.webhook_success
    /\ cbVal = 100

ExactTierFloor(n, i, p) ==
    (100 * compression_progress_total_allocation * i
     + compression_progress_total_allocation * p) \div (100 * n)
TierJustAccepted == acceptedTier = 0 /\ acceptedTier' # 0

\* C24: with n planned tiers, every progress value reported while tier i
\* (0-based) is being encoded equals floor(90*i/n + p/100 * 90/n) for the
\* encoder's percentage p, so it lies between floor(90*i/n) and
\* floor(90*(i+1)/n); when a tier is accepted the value 90 is reported.
C24_TierProgressExact ==
    [][LET n == Len(tiers)
           i == tier_idx - 1
       IN  /\ (pc = "run" /\ pc' = "run") =>
                cbVal' = ExactTierFloor(n, i, EncoderProgress(encElapsed', duration))
           /\ (pc = "run" /\ pc' = "eval") =>
                cbVal' = ExactTierFloor(n, i, 100)
           /\ (pc = "run" /\ pc' \in {"run", "eval"}) =>
                /\ cbVal' >= ExactTierFloor(n, i, 0)
                /\ cbVal' <= ExactTierFloor(n, i, 100)
           /\ TierJustAccepted =>
                cbVal' = compression_progress_total_allocation
      ]_vars

\* C24 as amended: every progress value reported while tier i is being
\* encoded is the exact floor of 90*i/n + p/100 * 90/n or one less (the
\* double-precision sum is truncated), the value reported when the encoder
\* returns is floor(90*(i+1)/n), every value lies between floor(90*i/n) and
\* floor(90*(i+1)/n), and an accepted tier reports 90.
C24_TierProgressWithin ==
    [][LET n == Len(tiers)
           i == tier_idx - 1
           exact == ExactTierFloor(n, i, EncoderProgress(encElapsed', duration))
       IN  /\ (pc = "run" /\ pc' = "run") => cbVal' \in {exact - 1, exact}
           /\ (pc = "run" /\ pc' = "eval") =>
                cbVal' = ExactTierFloor(n, i, 100)
           /\ (pc = "run" /\ pc' \in {"run", "eval"}) =>
                /\ cbVal' >= ExactTierFloor(n, i, 0)
                /\ cbVal' <= ExactTierFloor(n, i, 100)
           /\ TierJustAccepted =>
                cbVal' = compression_progress_total_allocation
      ]_vars
C24_Witness ==
    /\ pc = "run" /\ Len(tiers) = 1
    /\ EncoderProgress(encElapsed, duration) = 70
    /\ cbCalled /\ cbVal = 62

VaapiScaleChain == << "format=nv12", "hwupload", "scale_vaapi" >>

\* C25: every encoder invocation made for a tier that is not a stream copy
\* scales the output to exactly that tier's width x height: non-VAAPI
\* commands through the generic scale filter, VAAPI commands through the
\* hardware scale filter placed after format conversion and hwupload.
C25_ScalesToTier ==
    \A k \in 1..Len(encLog) :
        LET c == encLog[k] IN
        c.cv # "copy" =>
          /\ c.vf.w = tiers[tier_idx].w
          /\ c.vf.h = tiers[tier_idx].h
          /\ c.vf.filters = IF c.hwaccel = "vaapi" THEN VaapiScaleChain
                            ELSE << "scale" >>

CommandBuilt == calc.fn = "command"
EncodingOptions ==
    {"-b:v", "-b:a", "-preset", "-quality", "-vf", "-pass", "-passlogfile"}

\* C26: stream-copy mode.  When bitrate is "0", every command built by
\* compress_and_send_video, on the first attempt and on the retry and for
\* every codec, copies the video and the audio stream and carries no
\* bitrate, preset, quality, scale or pass/passlogfile argument.
C26_StreamCopy ==
    (CommandBuilt /\ calc.text = << "0" >>) =>
        /\ calc.cmd.cv = "copy"
        /\ calc.cmd.ca = "copy"
        /\ calc.cmd.opts \cap EncodingOptions = {}
        /\ calc.cmd.bv = << >> /\ calc.cmd.ba = ""
        /\ calc.cmd.preset = "" /\ calc.cmd.quality = ""
        /\ calc.cmd.vf = NoFilter
C26_Witness ==
    /\ CommandBuilt /\ calc.text = << "0" >>
    /\ calc.attempt = 1 /\ calc.codec = "hevc_vaapi" /\ calc.device
    /\ ~calc.force
    /\ calc.cmd.cv = "copy"

ReturnedTrue == pc = "eval"
Raised == pc = "tier_exc"
ExitedNonZero == lastExit # NoExit /\ lastExit.rc # 0

\* C27: compress_and_send_video returns True only if the last ffmpeg
\* process it ran exited with code 0, and progress 100 is the last value it
\* reported before returning; a last process that exited non-zero makes it
\* raise (after a non-zero exit the call either runs another process or
\* raises).
C27_TrueOnlyOnExitZero ==
    /\ ReturnedTrue =>
         /\ lastExit.rc = 0
         /\ cbCalled
         /\ cbVal = TierProgress(Len(tiers), tier_idx - 1, 100)
    /\ ExitedNonZero => (pc = "spawn" \/ Raised)
C27_Witness ==
    /\ ReturnedTrue /\ attempt = 1
    /\ lastExit.rc = 0

ProgressReported == calc.fn = "progress"
\* a / b rounded to the nearest integer, for a >= 0 and b > 0
RoundNearest(a, b) == (2 * a + b) \div (2 * b)

\* C28: the encoder progress reported for an elapsed time e and a clip
\* duration d is min(100, round(e/d*100)), rounded to the nearest integer,
\* for every e >= 0 and d > 0.
C28_ProgressRounded ==
    ProgressReported =>
        calc.progress = Min(100, RoundNearest(calc.elapsed * 100, calc.duration))

\* max(250, floor((size*8*pct/100 - 128000*d) / d / 1000)) when
\* size*8*pct/100 > 128000*d and 250 otherwise, for size in bytes, pct in
\* percent and d in ms (128000 * d/1000 bits of audio): the quotient is
\* floor(size*8*pct/100 / d) - 128.
FormulaKbps(size, d, pct) ==
    IF 2 * pct * size > 25 * 128 * d
    THEN Max(250, (2 * pct * size) \div (25 * d) - 128)
    ELSE 250

\* C29: the video bitrate of a tier attempt, in kbps, is
\* max(250, floor((max_size*8*0.90 - 128000*d) / d / 1000)) when
\* max_size*8*0.90 > 128000*d and exactly 250 otherwise; the recovery pass
\* uses the same formula with 0.85 in place of 0.90.
C29_BitrateFormula ==
    /\ calc.fn = "tier_bitrate" =>
         KbpsOf(calc.text) = FormulaKbps(calc.size, calc.duration, 90)
    /\ calc.fn = "final_bitrate" =>
         KbpsOf(calc.text) = FormulaKbps(calc.size, calc.duration, 85)
C29_Witness ==
    /\ calc.fn = "tier_bitrate"
    /\ calc.size = 10485760 /\ calc.duration = 30000
    /\ calc.text = << "2", "3", "8", "8", "k" >>

\* C30: whenever compress_clip returns success = true, the reported
\* file_size is at most the effective max_size (the smaller of the requested
\* max_size and the source size) and equals the size of the tier output
\* that was moved to output_path; no successful result reports an oversized
\* file.
C30_SuccessWithinBudget ==
    (Returned /\ result.success) =>
        /\ result.file_size <= Min(requested_max_size, original_file_size)
        /\ acceptedTier # 0
        /\ result.file_size = tierSize[acceptedTier]
        /\ Exists(fs, OutputPath)
        /\ fs[OutputPath] = [origin |-> acceptedTier, size |-> result.file_size]
C30_Witness ==
    /\ Returned /\ result.success
    /\ requested_max_size > original_file_size
    /\ result.file_size = original_file_size
    /\ acceptedTier = 2

RecoveryGuardReached == pc = "after_loop" /\ successful_compression

\* C31: the final aggressive re-compression stage is unreachable.  In no
\* execution of compress_clip is final_file_size > max_size true where the
\* stage is guarded, so the recovery encoder pass is never started and no
\* '.temp_oversized_original.mp4' file is ever created.
C31_RecoveryUnreachable ==
    /\ RecoveryGuardReached => final_file_size <= max_size
    /\ pc # "recovery"
    /\ ~Exists(fs, OversizedPath)
C31_Witness ==
    /\ RecoveryGuardReached
    /\ acceptedTier = 2
    /\ tierSize[1] > max_size

EncoderCalled == pc \in {"spawn", "run"}

ExitHandled == calc.fn = "exit"
\* the decimal text of n >= 0 holds the three characters pat
TextHolds(n, pat) ==
    LET t == IntToText(n) IN
    \E i \in 1..(Len(t) - 2) : SubSeq(t, i, i + 2) = pat
MemoryCodeInText(n) ==
    TextHolds(n, << "2", "3", "4" >>) \/ TextHolds(n, << "2", "4", "4" >>)
CodecInHand ==
    CommandCodec(calc.attempt, IF calc.force THEN "h264" ELSE calc.codec,
                 calc.device)

SourceSizeRead == original_file_size # Unreadable /\ pc # "start"

ForcedSoftware == CommandBuilt /\ calc.force
HardwareSpecific(c) ==
    \/ c.hwaccel # ""
    \/ c.quality # ""
    \/ c.opts \cap {"-hwaccel", "-hwaccel_device", "-quality"} # {}
    \/ \E i \in 1..Len(c.vf.filters) : c.vf.filters[i] # "scale"

\* C35: when FORCE_SOFTWARE_ENCODING is '1', every invocation built by
\* compress_and_send_video uses the software codec h264 whatever the codec
\* argument, so no hardware-specific command (VAAPI, AMF) is built.
C35_ForcedSoftwareAlways ==
    ForcedSoftware =>
        /\ calc.cmd.cv = "h264"
        /\ ~HardwareSpecific(calc.cmd)

\* C35 as amended: with FORCE_SOFTWARE_ENCODING = '1' every invocation that
\* re-encodes (bitrate other than "0") uses the software codec h264 with
\* preset medium whatever the codec argument, a stream copy keeps
\* -c:v copy, and no hardware-specific command (VAAPI, AMF) is built.
C35_ForcedSoftwareReencode ==
    ForcedSoftware =>
        /\ calc.cmd.cv = IF calc.text = << "0" >> THEN "copy" ELSE "h264"
        /\ calc.text # << "0" >> => calc.cmd.preset = "medium"
        /\ ~HardwareSpecific(calc.cmd)
C35_Witness ==
    /\ ForcedSoftware
    /\ calc.attempt = 0 /\ calc.codec = "hevc_vaapi" /\ calc.device
    /\ calc.text # << "0" >>
    /\ calc.cmd.cv = "h264"

\* C36: handle ordering.  After any sequence of mouse press, move and
\* release events on the range slider, duration changes of the video and
\* toggles of the duration limit, the start handle is strictly before the
\* end handle (lower_value < upper_value), both within 0..100.
C36_HandleOrdering ==
    /\ lower_value < upper_value
    /\ 0 <= lower_value /\ upper_value <= FullScale

LimitInForce == enforce_duration_limit /\ video_duration > 0
\* the selected range is at most 30000 ms plus one step of 0.001 % of the
\* video (span in 0.001 % times seconds is ms times 100)
WithinLimit(lower, upper, d) ==
    (upper - lower) * Seconds(d) <= max_clip_duration * 100 + Seconds(d)
ProcessorCalled == clip # NoClip

====
